---- MODULE Spec2Model ----
(***************************************************************************)
(* Local/remote synchronization subsystem of MeterItPro (sync API).        *)
(*                                                                         *)
(* Spec        tenant reconciliation: POST /api/local/tenant-sync handled  *)
(*             by concurrent requests against the remote and local stores. *)
(* SpecRace    the same, with the history of the remote reads.             *)
(* SpecUpload  the reading upload cycle with retry accounting and the      *)
(*             sync log.                                                   *)
(* SpecTrigger the manual-sync button of the status page and the upload    *)
(*             cycle it triggers.                                          *)
(* SpecStatus  the status endpoints, called while readings are captured    *)
(*             and uploaded.                                               *)
(* SpecLog     the status endpoint over sync logs of any content.          *)
(* SpecMonitor the connection monitor of the frontend, probing the health  *)
(*             and status endpoints of the sync API.                       *)
(* SpecProbes  the same, with the timers of the browser (fairness).        *)
(* SpecLifecycle the connection monitor from mount to unmount.             *)
(* SpecCard    CompanyInfoCard with its two instances of the monitor.      *)
(* SpecServer  the server process: startup, health routes, shutdown.       *)
(* SpecTenant  tenant reconciliation with the reads of the local tenant.   *)
(***************************************************************************)
EXTENDS Integers, Sequences, FiniteSets, Bags

VARIABLES
    remote,        \* remote store, table tenant: a set of rows
    local,         \* local (sync) store, table tenant: a set of rows
    remotePool,    \* database.ts remotePool: "undefined" | "open" | "ended"
    syncPool,      \* database.ts syncPool: "undefined" | "open" | "ended"
    inflight,      \* the tenant-sync requests being handled: a bag of Request records
    answered,      \* the request answered last, with the response it got
    lastRead,      \* history: the remote record most recently read by any call
    readings,      \* local store, table meter_reading, in captured-at order
    cycle,         \* upload cycle: "idle" | "running"
    batch,         \* upload cycle: the selected readings, with retry_count at selection
    outcomes,      \* upload cycle: delivery outcome of each attempt made so far
    syncLog,       \* local store, table sync_log, in completion order
    isSyncing,     \* SyncStatus page: useState isSyncing
    syncStatus,    \* SyncStatus page: the status last fetched, or NoStatus
    triggers,      \* manual trigger requests of the page in flight: a bag
    statusCall,    \* the status request being handled, or the one answered last
    status,        \* useConnectionStatus: ConnectionState of each endpoint
    passes,        \* checkAllConnections invocations in progress: a bag
    reachable,     \* which of the stores and services answer at present
    probed,        \* history: the probe that resolved last, and how
    interval,      \* useConnectionStatus: the setInterval handle: "none" | "set" | "cleared"
    display,       \* the useConnectionStatus instance of ConnectionStatusDisplay
    process,       \* the server process: startServer, the shutdown handlers, closePools
    health         \* the health request answered last, with the response it got

tenantVars == <<remote, local, remotePool, syncPool,
                inflight, answered, lastRead>>
uploadVars == <<readings, cycle, batch, outcomes>>
pageVars == <<isSyncing, syncStatus, triggers>>
monitorVars == <<status, passes, reachable, probed, interval, display>>
frontVars == <<pageVars, statusCall, monitorVars>>
serverVars == <<process, health>>
vars == <<tenantVars, uploadVars, syncLog, frontVars, serverVars>>

----------------------------------------------------------------------------
(* Bounds *)
MaxTenant == 1      \* tenant ids 1..MaxTenant
MaxVersion == 2     \* distinct contents a remote tenant record takes
MaxInFlight == 2    \* requests in flight at once

TenantIds == 1..MaxTenant
Versions == 1..MaxVersion

\* the value of a property the JSON body lacks
Undefined == -1
BodyIds == {Undefined} \cup (0..MaxTenant)

----------------------------------------------------------------------------
(* Tenant rows *)

\* the content of column c in version v of a record
Col(c, v) == <<c, v>>

\* A tenant record of the remote store: every column of the remote SELECT.
Row(t, v) ==
    [tenant_id |-> t, name |-> Col("name", v), url |-> Col("url", v),
     street |-> Col("street", v), street2 |-> Col("street2", v),
     city |-> Col("city", v), state |-> Col("state", v), zip |-> Col("zip", v),
     country |-> Col("country", v), active |-> (v % 2 = 1),
     api_key |-> Col("api_key", v)]

NoRow == [tenant_id |-> 0]
NoResp == [status |-> 0]

\* error.message of a rejected query
NoError == "none"
RemoteError == "remote: connect ECONNREFUSED"
LocalError == "local: query failed"

\* One request being handled: where its handler stands (pc), req.body.tenant_id,
\* remoteResult.rows[0] once read, the error its catch block caught, and the
\* stores it has queried so far.
Request(at, id, row, stores) ==
    [pc |-> at, tenant_id |-> id, remoteTenant |-> row, error |-> NoError,
     touched |-> stores]

\* A request that was answered: the request as it stood, its response, and
\* (history) the local tenant table as the answering step found it
Answered(r, response, before) ==
    [req |-> r, resp |-> response, localBefore |-> before]

RowsOf(table, t) == {r \in table : r.tenant_id = t}

\* rows[0] of a result set (at most one row per tenant_id in the remote table)
FirstRow(rows) == CHOOSE r \in rows : TRUE

\* a check that only rejects a zero tenant_id
Falsy_ZeroOnly(x) == x = 0

\* JavaScript !x for the values a tenant_id takes here
Falsy(x) == x = Undefined \/ x = 0

\* a SET list that leaves api_key out
DoUpdate_KeepsApiKey(old, new) ==
    [old EXCEPT !.name = new.name, !.url = new.url, !.street = new.street,
                !.street2 = new.street2, !.city = new.city, !.state = new.state,
                !.zip = new.zip, !.country = new.country, !.active = new.active]

\* ON CONFLICT (tenant_id) DO UPDATE SET ...: the row the conflicting row becomes
DoUpdate(old, new) ==
    [old EXCEPT !.name = new.name, !.url = new.url, !.street = new.street,
                !.street2 = new.street2, !.city = new.city, !.state = new.state,
                !.zip = new.zip, !.country = new.country, !.active = new.active,
                !.api_key = new.api_key]

\* an INSERT into a table without the conflict clause or the unique key
UpsertTable_Append(table, new) == table \cup {new}

\* INSERT ... ON CONFLICT (tenant_id) DO UPDATE: the table afterwards
UpsertTable(table, new) ==
    IF RowsOf(table, new.tenant_id) = {}
    THEN table \cup {new}
    ELSE {IF r.tenant_id = new.tenant_id THEN DoUpdate(r, new) ELSE r : r \in table}

\* RETURNING *: the inserted or updated row
UpsertReturning(table, new) ==
    FirstRow(RowsOf(UpsertTable(table, new), new.tenant_id))

\* rowCount of the upsert: PostgreSQL answers INSERT 0 1 for one row, whether
\* the row was inserted or updated by the ON CONFLICT clause
UpsertRowCount(table, new) == 1

\* sync_result of the 200 response
SyncResult(rowCount) ==
    [inserted |-> IF rowCount = 1 THEN 1 ELSE 0,
     updated |-> IF rowCount = 1 THEN 0 ELSE 1]

\* tenant_data of the 200 response
TenantData(localTenant) ==
    [tenant_id |-> localTenant.tenant_id, name |-> localTenant.name,
     url |-> localTenant.url, street |-> localTenant.street,
     street2 |-> localTenant.street2, city |-> localTenant.city,
     state |-> localTenant.state, zip |-> localTenant.zip,
     country |-> localTenant.country, active |-> localTenant.active]

Resp400 == [status |-> 400, success |-> FALSE, error |-> "tenant_id is required"]
Resp503 == [status |-> 503, success |-> FALSE,
            error |-> "Remote database pool not available"]
\* the not-found answer sent as a server error
Resp404_As500(t) == [status |-> 500, success |-> FALSE,
                     error |-> <<"Tenant", t, "not found in remote database">>]
Resp404(t) == [status |-> 404, success |-> FALSE,
               error |-> <<"Tenant", t, "not found in remote database">>]
\* the catch block: error.message of whatever was thrown
Resp500(message) == [status |-> 500, success |-> FALSE, error |-> message]
Resp200(rowCount, localTenant) ==
    [status |-> 200, success |-> TRUE,
     message |-> "Tenant sync completed successfully",
     sync_result |-> SyncResult(rowCount),
     tenant_data |-> TenantData(localTenant)]

\* pool.query rejects when the pool was ended or the store does not answer
QueryFails(pool, up) == pool # "open" \/ ~up

----------------------------------------------------------------------------
(* POST /api/local/tenant-sync *)

Handling(at) == {r \in BagToSet(inflight) : r.pc = at}

\* a request arrives; the handler runs up to its first await: the tenant_id and
\* remotePool checks, then the remote query is issued
Receive(b) ==
    /\ BagCardinality(inflight) < MaxInFlight
    /\ LET r == Request("handler", b, NoRow, {})
       IN  IF Falsy(b)
           THEN /\ answered' = Answered(r, Resp400, local)
                /\ UNCHANGED inflight
           ELSE IF remotePool = "undefined"
           THEN /\ answered' = Answered(r, Resp503, local)
                /\ UNCHANGED inflight
           ELSE /\ inflight' = inflight (+) SetToBag({[r EXCEPT !.pc = "remoteQuery"]})
                /\ UNCHANGED answered
    /\ UNCHANGED <<remote, local, remotePool, syncPool, lastRead>>
    /\ UNCHANGED <<uploadVars, syncLog, frontVars, serverVars>>

\* await remotePool.query(remoteQuery, [tenant_id]), the not-found check, and
\* the upsert is issued; remoteUp: whether the remote store answers this query
\* (the history variable lastRead is set by the specification that uses the
\* action)
RemoteQuery(r, remoteUp) ==
    /\ r \in Handling("remoteQuery")
    /\ LET q == [r EXCEPT !.touched = @ \cup {"remote"}]
           rows == RowsOf(remote, r.tenant_id)
       IN  IF QueryFails(remotePool, remoteUp)
           THEN /\ inflight' = inflight (-) SetToBag({r})
                /\ answered' = Answered([q EXCEPT !.error = RemoteError],
                                        Resp500(RemoteError), local)
           ELSE IF rows = {}
           THEN /\ inflight' = inflight (-) SetToBag({r})
                /\ answered' = Answered(q, Resp404(r.tenant_id), local)
           ELSE /\ inflight' = (inflight (-) SetToBag({r})) (+)
                       SetToBag({[q EXCEPT !.pc = "upsert", !.remoteTenant = FirstRow(rows)]})
                /\ UNCHANGED answered
    /\ UNCHANGED <<remote, local, remotePool, syncPool>>
    /\ UNCHANGED <<uploadVars, syncLog, frontVars, serverVars>>

\* await syncPool.query(upsertQuery, [...]) and the response built from its
\* result; localUp: whether the local store answers this query
Upsert(r, localUp) ==
    /\ r \in Handling("upsert")
    /\ inflight' = inflight (-) SetToBag({r})
    /\ LET q == [r EXCEPT !.touched = @ \cup {"local"}]
       IN  IF QueryFails(syncPool, localUp)
           THEN /\ answered' = Answered([q EXCEPT !.error = LocalError],
                                        Resp500(LocalError), local)
                /\ UNCHANGED local
           ELSE /\ local' = UpsertTable(local, r.remoteTenant)
                /\ answered' = Answered(q,
                       Resp200(UpsertRowCount(local, r.remoteTenant),
                               UpsertReturning(local, r.remoteTenant)),
                       local)
    /\ UNCHANGED <<remote, remotePool, syncPool, lastRead>>
    /\ UNCHANGED <<uploadVars, syncLog, frontVars, serverVars>>

----------------------------------------------------------------------------
(* GET /api/local/tenant *)

\* SELECT * FROM tenant: the row with every column
SelectColumns_Star(row) == row

\* SELECT tenant_id, name, url, street, street2, city, state, zip, country,
\* active FROM tenant: the columns of a row that the query returns
SelectColumns(row) ==
    [tenant_id |-> row.tenant_id, name |-> row.name, url |-> row.url,
     street |-> row.street, street2 |-> row.street2, city |-> row.city,
     state |-> row.state, zip |-> row.zip, country |-> row.country,
     active |-> row.active]

TenantNotFound == [status |-> 404, error |-> "No tenant found"]
TenantError(message) == [status |-> 500, error |-> message]
\* res.json(result.rows[0])
TenantFound(row) == [status |-> 200, body |-> row]

\* the answers GET /api/local/tenant can give: LIMIT 1 without an ORDER BY
\* returns any one row of the table
TenantAnswers(table, localUp) ==
    IF QueryFails(syncPool, localUp) THEN {TenantError(LocalError)}
    ELSE IF table = {} THEN {TenantNotFound}
    ELSE {TenantFound(SelectColumns(row)) : row \in table}

\* GET /api/local/tenant is handled; localUp: whether the local store answers
GetTenant(localUp) ==
    /\ \E resp \in TenantAnswers(local, localUp) :
          answered' = Answered(Request("tenant", Undefined, NoRow, {"local"}),
                               resp, local)
    /\ UNCHANGED <<remote, local, remotePool, syncPool, inflight, lastRead>>
    /\ UNCHANGED <<uploadVars, syncLog, frontVars, serverVars>>

----------------------------------------------------------------------------
(* The environment of the tenant reconciliation *)

\* account provisioning creates or changes a tenant record in the remote store
RemoteWrite(t, v) ==
    /\ Row(t, v) \notin remote
    /\ remote' = {r \in remote : r.tenant_id # t} \cup {Row(t, v)}
    /\ UNCHANGED <<local, remotePool, syncPool, inflight, answered, lastRead>>
    /\ UNCHANGED <<uploadVars, syncLog, frontVars, serverVars>>

\* account provisioning removes a tenant record from the remote store
RemoteDelete(t) ==
    /\ RowsOf(remote, t) # {}
    /\ remote' = {r \in remote : r.tenant_id # t}
    /\ UNCHANGED <<local, remotePool, syncPool, inflight, answered, lastRead>>
    /\ UNCHANGED <<uploadVars, syncLog, frontVars, serverVars>>

----------------------------------------------------------------------------
(* The server after startServer: both pools created, no request in flight,  *)
(* an empty local tenant table, any set of tenants provisioned remotely.    *)

NoRequest == Answered(Request("idle", Undefined, NoRow, {}), NoResp, {})

\* the tables, and no request in flight
InitTables ==
    /\ remote \in {{Row(t, 1) : t \in S} : S \in SUBSET TenantIds}
    /\ local = {}
    /\ inflight = EmptyBag
    /\ answered = NoRequest
    /\ lastRead = NoRow

InitTenant ==
    /\ InitTables
    /\ remotePool = "open"
    /\ syncPool = "open"

----------------------------------------------------------------------------
(* Reading capture and the upload cycle, as spec.md 4.3 and 5 describe them *)
(* (server.ts only reads the tables meter_reading and sync_log the cycle    *)
(* writes).                                                                 *)

MaxReadings == 3    \* readings captured
BatchLimit == 2     \* readings one cycle selects
MaxRetry == 2       \* retry_count the model lets a reading reach
MaxLog == 3         \* upload cycles the model lets start

NoMessage == "null"

\* a captured reading: unsynchronized, never retried
NewReading(id) ==
    [meter_reading_id |-> id, is_synchronized |-> FALSE, retry_count |-> 0,
     sync_status |-> "idle"]

\* the ids of the unsynchronized readings, oldest first
RECURSIVE Unsynchronized(_)
Unsynchronized(rs) ==
    IF rs = << >> THEN << >>
    ELSE IF Head(rs).is_synchronized THEN Unsynchronized(Tail(rs))
    ELSE <<Head(rs)>> \o Unsynchronized(Tail(rs))

\* the bounded batch a cycle selects: the oldest unsynchronized readings
SelectBatch(rs) ==
    LET queue == Unsynchronized(rs)
    IN  SubSeq(queue, 1, IF Len(queue) < BatchLimit THEN Len(queue) ELSE BatchLimit)

\* a reading after a delivery attempt
Delivered(rd) == [rd EXCEPT !.is_synchronized = TRUE, !.sync_status = "delivered"]
Failed_NoIncrement(rd) == [rd EXCEPT !.sync_status = "failed"]
Failed(rd) == [rd EXCEPT !.retry_count = @ + 1, !.sync_status = "failed"]
AfterAttempt(rd, ok) == IF ok THEN Delivered(rd) ELSE Failed(rd)

AllDelivered(results) == \A k \in 1..Len(results) : results[k]

\* an entry that calls a cycle a success when its last attempt delivered
UploadEntry_LastWins(selected, results) ==
    [operation_type |-> "upload", batch_size |-> Len(selected),
     success |-> results[Len(results)],
     error_message |-> IF results[Len(results)] THEN NoMessage
                       ELSE "some readings failed"]

\* the SyncLogEntry of a finished upload cycle
UploadEntry(selected, results) ==
    [operation_type |-> "upload", batch_size |-> Len(selected),
     success |-> AllDelivered(results),
     error_message |-> IF AllDelivered(results) THEN NoMessage
                       ELSE "some readings failed"]

\* the capture path inserts a reading
Capture ==
    /\ Len(readings) < MaxReadings
    /\ readings' = Append(readings, NewReading(Len(readings) + 1))
    /\ UNCHANGED <<cycle, batch, outcomes, syncLog>>
    /\ UNCHANGED <<tenantVars, frontVars, serverVars>>

\* a cycle begins: it selects its batch and marks the selected readings
BeginCycle ==
    /\ cycle' = "running"
    /\ batch' = SelectBatch(readings)
    /\ outcomes' = << >>
    /\ readings' = [i \in DOMAIN readings |->
                      IF \E k \in 1..Len(batch') : batch'[k].meter_reading_id = i
                      THEN [readings[i] EXCEPT !.sync_status = "in-flight"]
                      ELSE readings[i]]

\* an upload cycle starts on its schedule
StartCycle ==
    /\ cycle = "idle"
    /\ Len(syncLog) < MaxLog
    /\ SelectBatch(readings) # << >>
    /\ BeginCycle
    /\ UNCHANGED syncLog
    /\ UNCHANGED <<tenantVars, frontVars, serverVars>>

\* the next reading of the batch is sent to the remote service API
Attempt(ok) ==
    /\ cycle = "running"
    /\ Len(outcomes) < Len(batch)
    /\ ok \/ batch[Len(outcomes) + 1].retry_count < MaxRetry
    /\ LET i == batch[Len(outcomes) + 1].meter_reading_id
       IN  readings' = [readings EXCEPT ![i] = AfterAttempt(@, ok)]
    /\ outcomes' = Append(outcomes, ok)
    /\ UNCHANGED <<cycle, batch, syncLog>>
    /\ UNCHANGED <<tenantVars, frontVars, serverVars>>

\* every reading of the batch was attempted: the cycle writes its log entry
FinishCycle ==
    /\ cycle = "running"
    /\ Len(outcomes) = Len(batch)
    /\ syncLog' = Append(syncLog, UploadEntry(batch, outcomes))
    /\ cycle' = "idle"
    /\ batch' = << >>
    /\ outcomes' = << >>
    /\ UNCHANGED readings
    /\ UNCHANGED <<tenantVars, frontVars, serverVars>>

InitUpload ==
    /\ readings = << >>
    /\ cycle = "idle"
    /\ batch = << >>
    /\ outcomes = << >>

----------------------------------------------------------------------------
(* The Manual Sync card of the status page, and the trigger request it      *)
(* sends; the service that answers the request is as spec.md 4.3 and 5      *)
(* describe it.                                                             *)

MaxTriggers == 2    \* trigger requests in flight at once

\* the syncStatus of the store: null, or <<status>>
NoStatus == << >>

\* a condition that takes a status not fetched yet for a connected one
IsConnected_Optimistic(st) == st = NoStatus \/ st[1].is_connected

\* syncStatus?.is_connected, as a condition
IsConnected(st) == st # NoStatus /\ st[1].is_connected

\* disabled={!syncStatus?.is_connected} alone
ButtonDisabled_NoSyncing(syncing, st) == ~IsConnected(st)

\* disabled={isSyncing || !syncStatus?.is_connected}
ButtonDisabled(syncing, st) == syncing \/ ~IsConnected(st)

\* fetchSyncStatus: the page stores the status it fetched
FetchSyncStatus(connected) ==
    /\ syncStatus' = <<[is_connected |-> connected]>>
    /\ UNCHANGED <<isSyncing, triggers, statusCall, monitorVars>>
    /\ UNCHANGED <<tenantVars, uploadVars, syncLog, serverVars>>

\* handleManualSync up to its await: setIsSyncing(true), the request is sent
ClickManualSync ==
    /\ ~ButtonDisabled(isSyncing, syncStatus)
    /\ BagCardinality(triggers) < MaxTriggers
    /\ isSyncing' = TRUE
    /\ triggers' = triggers (+) SetToBag({"sent"})
    /\ UNCHANGED <<syncStatus, statusCall, monitorVars>>
    /\ UNCHANGED <<tenantVars, uploadVars, syncLog, serverVars>>

\* the trigger request reaches the service: rejected while a cycle is running,
\* not found when no reading is queued, else the cycle begins
TriggerSync ==
    /\ CopiesIn("sent", triggers) > 0
    /\ IF cycle = "running"
       THEN /\ triggers' = (triggers (-) SetToBag({"sent"})) (+) SetToBag({"rejected"})
            /\ UNCHANGED uploadVars
       ELSE IF SelectBatch(readings) = << >>
       THEN /\ triggers' = (triggers (-) SetToBag({"sent"})) (+) SetToBag({"not found"})
            /\ UNCHANGED uploadVars
       ELSE /\ Len(syncLog) < MaxLog
            /\ triggers' = (triggers (-) SetToBag({"sent"})) (+) SetToBag({"accepted"})
            /\ BeginCycle
    /\ UNCHANGED <<isSyncing, syncStatus, statusCall, monitorVars>>
    /\ UNCHANGED <<tenantVars, syncLog, serverVars>>

\* handleManualSync after its await: the message is set, finally
\* setIsSyncing(false)
TriggerReturns(answer) ==
    /\ answer # "sent"
    /\ CopiesIn(answer, triggers) > 0
    /\ triggers' = triggers (-) SetToBag({answer})
    /\ isSyncing' = FALSE
    /\ UNCHANGED <<syncStatus, statusCall, monitorVars>>
    /\ UNCHANGED <<tenantVars, uploadVars, syncLog, serverVars>>

InitPage ==
    /\ isSyncing = FALSE
    /\ syncStatus = NoStatus
    /\ triggers = EmptyBag

----------------------------------------------------------------------------
(* GET /api/local/sync-status and GET /api/sync/meter-reading-upload/status *)

RecentLimit == 10   \* LIMIT of the recent-logs query
ErrorSlice == 10    \* slice(0, 10) of the error list

\* null where a timestamp is expected (timestamps are positive)
NoTime == 0

Endpoints == {"sync-status", "upload-status"}

Min(a, b) == IF a < b THEN a ELSE b

Digit(d) == <<"0", "1", "2", "3", "4", "5", "6", "7", "8", "9">>[d + 1]
DigitValue(c) == CHOOSE d \in 0..9 : Digit(d) = c

\* the text PostgreSQL returns for a bigint such as COUNT(*)
RECURSIVE CountText(_)
CountText(n) ==
    IF n < 10 THEN <<Digit(n)>> ELSE Append(CountText(n \div 10), Digit(n % 10))

\* parseInt(text, 10) of a string of decimal digits
RECURSIVE ParseInt10(_)
ParseInt10(text) ==
    IF text = << >> THEN 0
    ELSE 10 * ParseInt10(SubSeq(text, 1, Len(text) - 1))
         + DigitValue(text[Len(text)])

\* a count query without its WHERE clause
CountQuery_All(rs) == CountText(Len(rs))

\* SELECT COUNT(*) as count FROM meter_reading WHERE is_synchronized = false
CountQuery(rs) == CountText(Len(SelectSeq(rs, LAMBDA rd : ~rd.is_synchronized)))

\* row k of sync_log as the status queries select it; the rows complete one
\* after the other, so the completion time of row k is k
LogRow(log, k) ==
    [sync_log_id |-> k, operation_type |-> log[k].operation_type,
     batch_size |-> log[k].batch_size, success |-> log[k].success,
     error_message |-> log[k].error_message, synced_at |-> k]

\* the rows in ascending order
LogDesc_Asc(log) == [j \in 1..Len(log) |-> LogRow(log, j)]

\* the rows of sync_log, ORDER BY synced_at DESC
LogDesc(log) == [j \in 1..Len(log) |-> LogRow(log, Len(log) + 1 - j)]

\* LIMIT n
Limit(rows, n) == SubSeq(rows, 1, Min(Len(rows), n))

\* SELECT ... FROM sync_log ORDER BY synced_at DESC LIMIT 10
RecentLogs(log) == Limit(LogDesc(log), RecentLimit)

\* SELECT ... FROM sync_log WHERE operation_type = 'upload'
\* ORDER BY synced_at DESC LIMIT 1
LastUploadRows(log) ==
    Limit(SelectSeq(LogDesc(log), LAMBDA l : l.operation_type = "upload"), 1)

\* x || d for an error message: null and the empty string are falsy
OrElse(x, d) == IF x = NoMessage \/ x = "" THEN d ELSE x

\* an entry of sync_errors
ErrorEntry(l) ==
    [sync_log_id |-> l.sync_log_id, batch_size |-> l.batch_size,
     error_message |-> OrElse(l.error_message, "Unknown error"),
     synced_at |-> l.synced_at]

MapErrors(rows) == [j \in 1..Len(rows) |-> ErrorEntry(rows[j])]

\* recentLogs.filter(!success).slice(0, 10).map(...)
ErrorLogs(recentLogs) ==
    MapErrors(Limit(SelectSeq(recentLogs, LAMBDA l : ~l.success), ErrorSlice))

\* successfulLogs.length > 0 ? successfulLogs[0].synced_at : null
LastSuccessfulSync(recentLogs) ==
    LET successfulLogs == SelectSeq(recentLogs, LAMBDA l : l.success)
    IN  IF Len(successfulLogs) > 0 THEN successfulLogs[1].synced_at ELSE NoTime

\* a flag that does not look at the answer of the store
Probe_PoolOnly(pool, up) == pool = "open"

\* try { await remotePool.query('SELECT 1'); true } catch { false }
Probe(pool, up) == ~QueryFails(pool, up)

\* the 500 answer of the status handlers
StatusError(message) == [status |-> 500, error |-> message]

SyncStatusResponse(isConnected, lastSuccessfulSync, queueSize, errorLogs) ==
    [status |-> 200, is_connected |-> isConnected,
     last_sync_at |-> lastSuccessfulSync, queue_size |-> queueSize,
     sync_errors |-> errorLogs]

\* lastUpload?.success ?? null, as it is serialized
OptionalBoolean(rows) ==
    IF rows = << >> THEN "null" ELSE IF rows[1].success THEN "true" ELSE "false"

UploadStatusResponse(isClientConnected, rows, queueSize) ==
    [status |-> 200, is_running |-> FALSE,
     last_upload_time |-> IF rows = << >> THEN NoTime ELSE rows[1].synced_at,
     last_upload_success |-> OptionalBoolean(rows),
     last_upload_error |-> IF rows = << >> THEN NoMessage
                           ELSE OrElse(rows[1].error_message, NoMessage),
     queue_size |-> queueSize, total_uploaded |-> 0, total_failed |-> 0,
     is_client_connected |-> isClientConnected]

\* the readings of a meter_reading table by their is_synchronized flag
Flags(rs) ==
    [queued |-> {i \in DOMAIN rs : ~rs[i].is_synchronized},
     delivered |-> {i \in DOMAIN rs : rs[i].is_synchronized}]

\* A status request: where its handler stands, its locals, its answer, and
\* (history) the readings its count query found in the table, the length of
\* sync_log when its log query ran, and how its probe of the remote store went
StatusCall(at, ep) ==
    [pc |-> at, endpoint |-> ep, queueSize |-> 0, recentLogs |-> << >>,
     resp |-> NoResp, counted |-> Flags(<< >>), logged |-> 0, probe |-> "none"]

NoCall == StatusCall("idle", "none")

\* a status request arrives; the handler issues its count query
StatusReceive(ep) ==
    /\ statusCall.pc \in {"idle", "answered"}
    /\ statusCall' = StatusCall("queueQuery", ep)
    /\ UNCHANGED <<pageVars, monitorVars>>
    /\ UNCHANGED <<tenantVars, uploadVars, syncLog, serverVars>>

\* await syncPool.query(queueQuery) and parseInt of its count
StatusQueue(localUp) ==
    /\ statusCall.pc = "queueQuery"
    /\ statusCall' =
         IF QueryFails(syncPool, localUp)
         THEN [statusCall EXCEPT !.pc = "answered", !.resp = StatusError(LocalError)]
         ELSE [statusCall EXCEPT !.pc = "logsQuery",
                                 !.queueSize = ParseInt10(CountQuery(readings)),
                                 !.counted = Flags(readings)]
    /\ UNCHANGED <<pageVars, monitorVars>>
    /\ UNCHANGED <<tenantVars, uploadVars, syncLog, serverVars>>

\* await syncPool.query(logsQuery), or lastUploadQuery
StatusLogs(localUp) ==
    /\ statusCall.pc = "logsQuery"
    /\ statusCall' =
         IF QueryFails(syncPool, localUp)
         THEN [statusCall EXCEPT !.pc = "answered", !.resp = StatusError(LocalError)]
         ELSE [statusCall EXCEPT
                 !.pc = "probe",
                 !.recentLogs = IF statusCall.endpoint = "sync-status"
                                THEN RecentLogs(syncLog)
                                ELSE LastUploadRows(syncLog),
                 !.logged = Len(syncLog)]
    /\ UNCHANGED <<pageVars, monitorVars>>
    /\ UNCHANGED <<tenantVars, uploadVars, syncLog, serverVars>>

\* the probe of the remote store, and the response
StatusProbe(remoteUp) ==
    /\ statusCall.pc = "probe"
    /\ LET isConnected == Probe(remotePool, remoteUp)
           c == statusCall
       IN  statusCall' =
             [c EXCEPT
                !.pc = "answered",
                !.probe = IF QueryFails(remotePool, remoteUp) THEN "failed" ELSE "ok",
                !.resp = IF c.endpoint = "sync-status"
                         THEN SyncStatusResponse(isConnected,
                                  LastSuccessfulSync(c.recentLogs), c.queueSize,
                                  ErrorLogs(c.recentLogs))
                         ELSE UploadStatusResponse(isConnected, c.recentLogs,
                                                   c.queueSize)]
    /\ UNCHANGED <<pageVars, monitorVars>>
    /\ UNCHANGED <<tenantVars, uploadVars, syncLog, serverVars>>

----------------------------------------------------------------------------
(* useConnectionStatus: the connection monitor of the frontend, and the      *)
(* routes of the sync API it probes                                          *)

MaxPasses == 2      \* checkAllConnections invocations in progress at once

\* enum ConnectionState
CHECKING == "checking"
CONNECTED == "connected"
DISCONNECTED == "disconnected"
ERROR == "error"

\* the probes of one pass, in the order checkAllConnections makes them
Targets == <<"syncDb", "remoteDb", "remoteApi">>

Url(target) ==
    CASE target = "syncDb" -> "/api/health/sync-db"
      [] target = "remoteDb" -> "/api/health/remote-db"
      [] target = "remoteApi" -> "/api/local/sync-status"

\* What answers at present: the sync API as the browser sees it ("up",
\* "down": connections fail, "silent": requests get no answer), the local
\* store, the remote store, and the API of the remote Client System
Environments ==
    [api : {"up", "down", "silent"}, syncDb : BOOLEAN, remoteDb : BOOLEAN,
     clientApi : BOOLEAN]

AllUp == [api |-> "up", syncDb |-> TRUE, remoteDb |-> TRUE, clientApi |-> TRUE]

\* healthCheckSync, healthCheckRemote: the status of the store
HealthCheck(pool, up) == IF QueryFails(pool, up) THEN "unhealthy" ELSE "healthy"

\* GET /api/health/sync-db, GET /api/health/remote-db: the status code
HealthRoute(pool, up) == IF HealthCheck(pool, up) = "healthy" THEN 200 ELSE 503

\* GET /api/local/sync-status: the status code; the handler answers 500 when
\* one of its queries of the local store fails, whatever its probe of the
\* remote store finds
SyncStatusRoute(localUp) ==
    IF QueryFails(syncPool, localUp) THEN StatusError(LocalError).status ELSE 200

\* the status code the sync API answers a GET of url with
Answer(url, env) ==
    CASE url = "/api/health/sync-db" -> HealthRoute(syncPool, env.syncDb)
      [] url = "/api/health/remote-db" -> HealthRoute(remotePool, env.remoteDb)
      [] url = "/api/local/sync-status" -> SyncStatusRoute(env.syncDb)

\* a probe that takes any response for success
Ok_Any(code) == TRUE

\* response.ok
Ok(code) == code \in 200..299

\* a hook that tells a failed probe from an unreachable endpoint
StateOf_Error(connected) == IF connected THEN CONNECTED ELSE ERROR

\* connected ? ConnectionState.CONNECTED : ConnectionState.DISCONNECTED
StateOf(connected) == IF connected THEN CONNECTED ELSE DISCONNECTED

\* an aggregate that leaves the remote API out
IsAllConnected_NoApi(st) ==
    st.syncDb = CONNECTED /\ st.remoteDb = CONNECTED

IsAllConnected(st) ==
    st.syncDb = CONNECTED /\ st.remoteDb = CONNECTED /\ st.remoteApi = CONNECTED

IsRemoteSystemConnected(st) ==
    st.remoteDb = CONNECTED /\ st.remoteApi = CONNECTED

\* the last probe resolved: its target, how its fetch ended ("response",
\* "network error", "timeout") and the status code of the response
Probed(target, how, code) == [target |-> target, how |-> how, code |-> code]
NoProbe == Probed("none", "none", 0)

\* a call of checkAllConnections runs up to its first await: the first probe
\* of a pass starts, with its abort timer
Invoke ==
    /\ BagCardinality(passes) < MaxPasses
    /\ passes' = passes (+) SetToBag({1})
    /\ UNCHANGED <<status, reachable, probed, display>>
    /\ UNCHANGED <<pageVars, statusCall>>
    /\ UNCHANGED <<tenantVars, uploadVars, syncLog, serverVars>>

\* an effect that sets the interval and leaves the first check to it
Mount_Deferred ==
    /\ interval = "none"
    /\ interval' = "set"
    /\ UNCHANGED <<status, passes, reachable, probed, display>>
    /\ UNCHANGED <<pageVars, statusCall>>
    /\ UNCHANGED <<tenantVars, uploadVars, syncLog, serverVars>>

\* useEffect when the component mounts: the initial check, then setInterval
Mount ==
    /\ interval = "none"
    /\ interval' = "set"
    /\ Invoke

\* checkAllConnections is called by the interval, which fires every
\* CHECK_INTERVAL until it is cleared, or as refresh by the component that
\* uses the hook
CheckAllConnections ==
    /\ interval = "set"
    /\ UNCHANGED interval
    /\ Invoke

\* the cleanup of useEffect when the component unmounts: clearInterval
Unmount ==
    /\ interval = "set"
    /\ interval' = "cleared"
    /\ UNCHANGED <<status, passes, reachable, probed, display>>
    /\ UNCHANGED <<pageVars, statusCall>>
    /\ UNCHANGED <<tenantVars, uploadVars, syncLog, serverVars>>

\* setStatus((prev) => ({...prev, [target]: state})); React drops the update
\* of a component that was unmounted
SetStatus(prev, target, state) ==
    IF interval = "cleared" THEN prev ELSE [prev EXCEPT ![target] = state]

\* a pass that gives up at its first failed probe
Continues_IfConnected(k, connected) == connected /\ k < Len(Targets)

\* whether a pass goes on after probe k returned connected: the three awaits
\* of checkAllConnections follow one another whatever checkConnection
\* returned, and checkConnection catches what its fetch throws
Continues(k, connected) == k < Len(Targets)

\* checkConnection of the pass at probe k returns connected: setStatus, and
\* the next probe of the pass starts, or the pass ends
Returns(k, connected, how, code) ==
    /\ status' = SetStatus(status, Targets[k], StateOf(connected))
    /\ passes' = IF Continues(k, connected)
                 THEN (passes (-) SetToBag({k})) (+) SetToBag({k + 1})
                 ELSE passes (-) SetToBag({k})
    /\ probed' = Probed(Targets[k], how, code)
    /\ UNCHANGED <<reachable, interval, display>>
    /\ UNCHANGED <<pageVars, statusCall>>
    /\ UNCHANGED <<tenantVars, uploadVars, syncLog, serverVars>>

\* the fetch of a probe resolves with the response of the sync API:
\* clearTimeout, return response.ok
FetchResolves(k) ==
    /\ CopiesIn(k, passes) > 0
    /\ reachable.api = "up"
    /\ LET code == Answer(Url(Targets[k]), reachable)
       IN  Returns(k, Ok(code), "response", code)

\* the fetch of a probe rejects, no connection made: the catch block returns
\* false
FetchRejects(k) ==
    /\ CopiesIn(k, passes) > 0
    /\ reachable.api = "down"
    /\ Returns(k, FALSE, "network error", 0)

\* the timer of a probe fires before its fetch has settled:
\* controller.abort() rejects the fetch, the catch block returns false
TimeoutFires(k) ==
    /\ CopiesIn(k, passes) > 0
    /\ Returns(k, FALSE, "timeout", 0)

\* a store or a service goes away or comes back
Outage(env) ==
    /\ env # reachable
    /\ reachable' = env
    /\ UNCHANGED <<status, passes, probed, interval, display>>
    /\ UNCHANGED <<pageVars, statusCall>>
    /\ UNCHANGED <<tenantVars, uploadVars, syncLog, serverVars>>

\* A second instance of the hook: CompanyInfoCard takes isAllConnected from
\* its own call of useConnectionStatus, and ConnectionStatusDisplay, which it
\* renders once it has loaded the tenant, takes the status of the indicators
\* from another call. Each call has its own state, interval and passes.
Instance(handle, st, ps) == [interval |-> handle, status |-> st, passes |-> ps]

\* what checkConnection returns for probe k, by how its fetch ended
Connected(k, how) ==
    how = "response" /\ Ok(Answer(Url(Targets[k]), reachable))

\* ConnectionStatusDisplay mounts: the initial check of its instance starts,
\* and its interval is set
DisplayMount ==
    /\ interval = "set"
    /\ display.interval = "none"
    /\ display' = [display EXCEPT !.interval = "set",
                                  !.passes = @ (+) SetToBag({1})]
    /\ UNCHANGED <<status, passes, reachable, probed, interval>>
    /\ UNCHANGED <<pageVars, statusCall>>
    /\ UNCHANGED <<tenantVars, uploadVars, syncLog, serverVars>>

\* the interval of the instance of ConnectionStatusDisplay fires
DisplayCheck ==
    /\ display.interval = "set"
    /\ BagCardinality(display.passes) < MaxPasses
    /\ display' = [display EXCEPT !.passes = @ (+) SetToBag({1})]
    /\ UNCHANGED <<status, passes, reachable, probed, interval>>
    /\ UNCHANGED <<pageVars, statusCall>>
    /\ UNCHANGED <<tenantVars, uploadVars, syncLog, serverVars>>

\* probe k of a pass of the instance of ConnectionStatusDisplay returns:
\* setStatus, and the next probe starts or the pass ends
DisplayReturns(k, how) ==
    /\ CopiesIn(k, display.passes) > 0
    /\ how = "response" => reachable.api = "up"
    /\ how = "network error" => reachable.api = "down"
    /\ display' =
         [display EXCEPT
            !.status = [@ EXCEPT ![Targets[k]] = StateOf(Connected(k, how))],
            !.passes = IF Continues(k, Connected(k, how))
                       THEN (@ (-) SetToBag({k})) (+) SetToBag({k + 1})
                       ELSE @ (-) SetToBag({k})]
    /\ UNCHANGED <<status, passes, reachable, probed, interval>>
    /\ UNCHANGED <<pageVars, statusCall>>
    /\ UNCHANGED <<tenantVars, uploadVars, syncLog, serverVars>>

InitMonitor ==
    /\ display = Instance("none", [t \in {Targets[k] : k \in DOMAIN Targets} |-> CHECKING], EmptyBag)
    /\ status = [t \in {Targets[k] : k \in DOMAIN Targets} |-> CHECKING]
    /\ passes = EmptyBag
    /\ reachable = AllUp
    /\ probed = NoProbe
    /\ interval = "none"

----------------------------------------------------------------------------
(* The server process: startServer and initializePools, the shutdown       *)
(* handlers and closePools, and the health routes                          *)

MaxSignals == 2     \* shutdown signals the process receives before it exits

NoCode == -1

\* error.message of what pool.query and pool.end throw
UndefinedPoolError == "TypeError: Cannot read properties of undefined"
EndedPoolError == "Cannot use a pool after calling end on the pool"
EndTwiceError == "Called end on pool more than once"

\* The process: where it stands (pc: "starting", "listening", "closing",
\* "exited"), what the test queries of initializePools found (history), the
\* signals received, the close callbacks registered and not yet run, the
\* closePools calls that are between their two halves (mid), the end() calls
\* each pool received (history), the error of a closePools call that
\* rejected, and the exit code
Process(at, sync, remoteDb) ==
    [pc |-> at, tested |-> [sync |-> sync, remote |-> remoteDb], signals |-> 0,
     callbacks |-> 0, mid |-> 0, ends |-> [sync |-> 0, remote |-> 0],
     raised |-> NoError, code |-> NoCode]

\* whether initializePools rejects: each of its two test queries is awaited
\* inside a try whose catch block logs the error and goes on
InitializePoolsRejects(localUp, remoteUp) == FALSE

\* startServer: initializePools creates the two pools and runs the test
\* queries; then app.listen, or process.exit(1) from the catch block
StartServer(localUp, remoteUp) ==
    /\ process.pc = "starting"
    /\ syncPool' = "open"
    /\ remotePool' = "open"
    /\ process' =
         IF InitializePoolsRejects(localUp, remoteUp)
         THEN [Process("exited", localUp, remoteUp) EXCEPT !.code = 1]
         ELSE Process("listening", localUp, remoteUp)
    /\ UNCHANGED <<remote, local, inflight, answered, lastRead, health>>
    /\ UNCHANGED <<uploadVars, syncLog, frontVars>>

\* SIGINT or SIGTERM: shutdown calls server.close with a callback, which runs
\* once the server has closed, whether this call or an earlier one closed it
Shutdown ==
    /\ process.pc \in {"listening", "closing"}
    /\ process.signals < MaxSignals
    /\ process' = [process EXCEPT !.pc = "closing", !.signals = @ + 1,
                                  !.callbacks = @ + 1]
    /\ UNCHANGED <<tenantVars, health>>
    /\ UNCHANGED <<uploadVars, syncLog, frontVars>>

\* pool.end(): the state of the pool afterwards
End(pool) == "ended"

\* pool.end() rejects when the pool was ended before
EndRejects(pool) == pool = "ended"

\* a close callback runs closePools up to its first await:
\* if (syncPool) await syncPool.end()
ClosePoolsSync ==
    /\ process.pc = "closing"
    /\ process.callbacks > 0
    /\ IF syncPool = "undefined"
       THEN /\ process' = [process EXCEPT !.callbacks = @ - 1, !.mid = @ + 1]
            /\ UNCHANGED syncPool
       ELSE IF EndRejects(syncPool)
       THEN /\ process' = [process EXCEPT !.callbacks = @ - 1,
                                          !.ends.sync = @ + 1,
                                          !.raised = EndTwiceError]
            /\ UNCHANGED syncPool
       ELSE /\ process' = [process EXCEPT !.callbacks = @ - 1, !.mid = @ + 1,
                                          !.ends.sync = @ + 1]
            /\ syncPool' = End(syncPool)
    /\ UNCHANGED <<remote, local, remotePool, inflight, answered, lastRead, health>>
    /\ UNCHANGED <<uploadVars, syncLog, frontVars>>

\* closePools goes on after its first await: if (remotePool) await
\* remotePool.end(); and when it resolved the callback calls process.exit(0)
ClosePoolsRemote ==
    /\ process.pc = "closing"
    /\ process.mid > 0
    /\ IF remotePool = "undefined"
       THEN /\ process' = [process EXCEPT !.mid = @ - 1, !.pc = "exited", !.code = 0]
            /\ UNCHANGED remotePool
       ELSE IF EndRejects(remotePool)
       THEN /\ process' = [process EXCEPT !.mid = @ - 1,
                                          !.ends.remote = @ + 1,
                                          !.raised = EndTwiceError]
            /\ UNCHANGED remotePool
       ELSE /\ process' = [process EXCEPT !.mid = @ - 1, !.ends.remote = @ + 1,
                                          !.pc = "exited", !.code = 0]
            /\ remotePool' = End(remotePool)
    /\ UNCHANGED <<remote, local, syncPool, inflight, answered, lastRead, health>>
    /\ UNCHANGED <<uploadVars, syncLog, frontVars>>

\* error.message of a pool.query that rejects
QueryError(pool, message) ==
    CASE pool = "undefined" -> UndefinedPoolError
      [] pool = "ended" -> EndedPoolError
      [] OTHER -> message

\* a health check without its try and catch
HealthCheckResult_Rethrows(pool, up, message) ==
    IF QueryFails(pool, up)
    THEN [kind |-> "thrown", status |-> "none", error |-> QueryError(pool, message)]
    ELSE [kind |-> "returned", status |-> "healthy", error |-> NoError]

\* healthCheckSync, healthCheckRemote: what the call gives its caller
HealthCheckResult(pool, up, message) ==
    [kind |-> "returned", status |-> HealthCheck(pool, up),
     error |-> IF QueryFails(pool, up) THEN QueryError(pool, message) ELSE NoError]

\* GET /api/health/sync-db, GET /api/health/remote-db: the response
HealthResponse(db, result) ==
    IF result.kind = "returned" /\ result.status = "healthy"
    THEN [status |-> 200, body |-> [status |-> "ok", database |-> db]]
    ELSE [status |-> 503,
          body |-> [status |-> "error", database |-> db, error |-> result.error]]

\* A health request that was answered: the store it asked for, (history) the
\* pool as the check found it and whether the store answered, the result of
\* the health check and the response
Health(db, pool, up, result) ==
    [db |-> db, pool |-> pool, up |-> up, result |-> result,
     resp |-> HealthResponse(db, result)]

NoHealth == [db |-> "none"]

\* GET /api/health/sync-db or /api/health/remote-db is handled; up: whether
\* the store answers the query of the check
HealthRequest(db, up) ==
    /\ process.pc \in {"listening", "closing"}
    /\ LET pool == IF db = "sync" THEN syncPool ELSE remotePool
           message == IF db = "sync" THEN LocalError ELSE RemoteError
       IN  health' = Health(db, pool, up, HealthCheckResult(pool, up, message))
    /\ UNCHANGED <<tenantVars, process>>
    /\ UNCHANGED <<uploadVars, syncLog, frontVars>>

\* the process after startServer, both stores reached
InitServer ==
    /\ process = Process("listening", TRUE, TRUE)
    /\ health = NoHealth

\* everything but the pools, the process and the sync log
InitFront ==
    /\ InitUpload
    /\ InitPage
    /\ statusCall = NoCall
    /\ InitMonitor

\* everything but the sync log
InitStores ==
    /\ InitTenant
    /\ InitServer
    /\ InitFront

\* the process when startServer is called: no pool created yet
InitBoot ==
    /\ InitTables
    /\ remotePool = "undefined"
    /\ syncPool = "undefined"
    /\ process = Process("starting", FALSE, FALSE)
    /\ health = NoHealth
    /\ InitFront
    /\ syncLog = << >>

Init ==
    /\ InitStores
    /\ syncLog = << >>

\* the tenant reconciliation
Next ==
    \/ \E b \in BodyIds : Receive(b)
    \/ \E r \in BagToSet(inflight), remoteUp \in BOOLEAN :
          RemoteQuery(r, remoteUp) /\ UNCHANGED lastRead
    \/ \E r \in BagToSet(inflight), localUp \in BOOLEAN : Upsert(r, localUp)
    \/ \E t \in TenantIds, v \in Versions : RemoteWrite(t, v)
    \/ \E t \in TenantIds : RemoteDelete(t)

Spec == Init /\ [][Next]_vars

\* the record a remote query reads, if it reads one
ReadBy(r, remoteUp) ==
    IF QueryFails(remotePool, remoteUp) \/ RowsOf(remote, r.tenant_id) = {}
    THEN lastRead
    ELSE FirstRow(RowsOf(remote, r.tenant_id))

\* the tenant reconciliation with the history of the remote reads, while the
\* local store answers every query
NextRace ==
    \/ \E b \in BodyIds : Receive(b)
    \/ \E r \in BagToSet(inflight), remoteUp \in BOOLEAN :
          RemoteQuery(r, remoteUp) /\ lastRead' = ReadBy(r, remoteUp)
    \/ \E r \in BagToSet(inflight) : Upsert(r, TRUE)
    \/ \E t \in TenantIds, v \in Versions : RemoteWrite(t, v)
    \/ \E t \in TenantIds : RemoteDelete(t)

SpecRace == Init /\ [][NextRace]_vars

\* the tenant reconciliation and the reads of the local tenant, while the
\* remote store answers every query
NextTenant ==
    \/ \E b \in BodyIds : Receive(b)
    \/ \E r \in BagToSet(inflight) : RemoteQuery(r, TRUE) /\ UNCHANGED lastRead
    \/ \E r \in BagToSet(inflight), localUp \in BOOLEAN : Upsert(r, localUp)
    \/ \E t \in TenantIds, v \in Versions : RemoteWrite(t, v)
    \/ \E localUp \in BOOLEAN : GetTenant(localUp)

SpecTenant == Init /\ [][NextTenant]_vars

\* the upload queue
NextUpload ==
    \/ Capture
    \/ StartCycle
    \/ \E ok \in BOOLEAN : Attempt(ok)
    \/ FinishCycle

InitQueue == Init /\ remote = {}

SpecUpload == InitQueue /\ [][NextUpload]_vars

\* the upload queue with the manual trigger of the status page
NextTrigger ==
    \/ Capture
    \/ StartCycle
    \/ \E ok \in BOOLEAN : Attempt(ok)
    \/ FinishCycle
    \/ \E connected \in BOOLEAN : FetchSyncStatus(connected)
    \/ ClickManualSync
    \/ TriggerSync
    \/ \E answer \in {"accepted", "rejected", "not found"} : TriggerReturns(answer)

SpecTrigger == InitQueue /\ [][NextTrigger]_vars

\* the status endpoints, while readings are captured and uploaded
NextStatus ==
    \/ Capture
    \/ StartCycle
    \/ \E ok \in BOOLEAN : Attempt(ok)
    \/ FinishCycle
    \/ \E ep \in Endpoints : StatusReceive(ep)
    \/ \E localUp \in BOOLEAN : StatusQueue(localUp)
    \/ \E localUp \in BOOLEAN : StatusLogs(localUp)
    \/ \E remoteUp \in BOOLEAN : StatusProbe(remoteUp)

SpecStatus == InitQueue /\ [][NextStatus]_vars

MaxLogLen == 11     \* entries of the longest sync log
MaxMixedLen == 6    \* entries of the longest log that mixes all kinds of entry

\* a SyncLogEntry as spec.md 3 describes it
LogEntry(ok, message) ==
    [operation_type |-> "upload", batch_size |-> 1, success |-> ok,
     error_message |-> message]

\* a successful entry, a failed one with its message, a failed one without
Entries ==
    {LogEntry(TRUE, NoMessage), LogEntry(FALSE, "some readings failed"),
     LogEntry(FALSE, NoMessage)}

LogsOver(kinds, maxLen) == UNION {[1..n -> kinds] : n \in 0..maxLen}

\* the logs the status endpoint is called on: every log of up to MaxMixedLen
\* entries, and every log of up to MaxLogLen entries of two kinds
Logs ==
    LogsOver(Entries, MaxMixedLen) \cup
    UNION {LogsOver(Entries \ {e}, MaxLogLen) : e \in Entries}

\* a sync log of any content, no reading queued
InitLog ==
    /\ InitStores
    /\ remote = {}
    /\ syncLog \in Logs

\* GET /api/local/sync-status
NextLog ==
    \/ StatusReceive("sync-status")
    \/ StatusQueue(TRUE)
    \/ StatusLogs(TRUE)
    \/ \E remoteUp \in BOOLEAN : StatusProbe(remoteUp)

SpecLog == InitLog /\ [][NextLog]_vars

\* the server process from its start to its exit
NextServer ==
    \/ \E localUp, remoteUp \in BOOLEAN : StartServer(localUp, remoteUp)
    \/ Shutdown
    \/ ClosePoolsSync
    \/ ClosePoolsRemote
    \/ \E db \in {"sync", "remote"}, up \in BOOLEAN : HealthRequest(db, up)

SpecServer == InitBoot /\ [][NextServer]_vars

\* the connection monitor of a component that stays mounted
NextMonitor ==
    \/ Mount
    \/ CheckAllConnections
    \/ \E k \in DOMAIN Targets : FetchResolves(k)
    \/ \E k \in DOMAIN Targets : FetchRejects(k)
    \/ \E k \in DOMAIN Targets : TimeoutFires(k)
    \/ \E env \in Environments : Outage(env)

SpecMonitor == InitQueue /\ [][NextMonitor]_vars

\* what answers while the card is watched: everything, or all but the remote store
CardEnvironments == {AllUp, [AllUp EXCEPT !.remoteDb = FALSE]}

\* CompanyInfoCard: its own instance of the hook and the instance of the
\* ConnectionStatusDisplay it renders, both probing the same sync API
NextCard ==
    \/ Mount
    \/ CheckAllConnections
    \/ \E k \in DOMAIN Targets : FetchResolves(k)
    \/ \E k \in DOMAIN Targets : TimeoutFires(k)
    \/ DisplayMount
    \/ DisplayCheck
    \/ \E k \in DOMAIN Targets, how \in {"response", "timeout"} : DisplayReturns(k, how)
    \/ \E env \in CardEnvironments : Outage(env)

SpecCard == InitQueue /\ [][NextCard]_vars

\* the connection monitor of a component that is mounted and unmounted
NextLifecycle ==
    \/ NextMonitor
    \/ Unmount

SpecLifecycle == InitQueue /\ [][NextLifecycle]_vars

\* the connection monitor with the timers of the browser: the callback of a
\* setTimeout that is not cleared runs (CHECK_TIMEOUT after it was set)
SpecProbes ==
    /\ InitQueue
    /\ [][NextMonitor]_vars
    /\ \A k \in DOMAIN Targets : WF_vars(TimeoutFires(k))

----------------------------------------------------------------------------
(* Tenant reconciliation: properties *)

Tenant(a) == a.req.tenant_id
SyncedOK == answered.resp.status = 200
\* the local row of the answered request's tenant, as the upsert found it
RowBefore == RowsOf(answered.localBefore, Tenant(answered))

\* C1: a successful tenant-sync that finds no local row reports inserted=1,
\* updated=0; one that finds the local row already equal to the (unchanged)
\* remote record reports updated=1, inserted=0.
C1_InsertedThenUpdated ==
    SyncedOK =>
        IF RowBefore = {}
        THEN /\ answered.resp.sync_result.inserted = 1
             /\ answered.resp.sync_result.updated = 0
        ELSE RowBefore = {answered.req.remoteTenant} =>
             /\ answered.resp.sync_result.updated = 1
             /\ answered.resp.sync_result.inserted = 0

\* C2: after every successful tenant-sync the local table holds exactly one row
\* for the tenant; a run that finds the row a previous run left, with the remote
\* record unchanged, leaves the table as it was and returns the tenant_data of
\* that row again.
C2_SyncIdempotent ==
    SyncedOK =>
        /\ Cardinality(RowsOf(local, Tenant(answered))) = 1
        /\ RowBefore = {answered.req.remoteTenant} =>
             /\ local = answered.localBefore
             /\ answered.resp.tenant_data = TenantData(FirstRow(RowBefore))

C2_Witness ==
    /\ SyncedOK
    /\ RowBefore = {answered.req.remoteTenant}

\* C3: after a successful tenant-sync every mirrored field of the local row
\* equals the remote record the call read, whatever the row held before.
C3_LastRemoteWriteWins ==
    SyncedOK =>
        /\ RowsOf(local, Tenant(answered)) # {}
        /\ \A row \in RowsOf(local, Tenant(answered)) :
             LET rt == answered.req.remoteTenant
             IN  /\ row.name = rt.name /\ row.url = rt.url
                 /\ row.street = rt.street /\ row.street2 = rt.street2
                 /\ row.city = rt.city /\ row.state = rt.state
                 /\ row.zip = rt.zip /\ row.country = rt.country
                 /\ row.active = rt.active /\ row.api_key = rt.api_key

C3_Witness ==
    /\ SyncedOK
    /\ RowBefore # {}
    /\ RowBefore # {answered.req.remoteTenant}

\* C4: once all concurrent tenant-sync calls have completed, the local row
\* equals the remote record most recently read by any of them.
C4_NoLostUpdate ==
    (inflight = EmptyBag /\ lastRead # NoRow) =>
        RowsOf(local, lastRead.tenant_id) = {lastRead}

\* a request in flight is answered in this step
Answering == BagCardinality(inflight') < BagCardinality(inflight)

\* C5: every tenant-sync attempt that reached the stores appends exactly one
\* SyncLogEntry (operation type "tenant-sync", batch size 1, the attempt's
\* outcome) and leaves the earlier entries as they were.
C5_LogsEveryAttempt ==
    [][Answering =>
         /\ Len(syncLog') = Len(syncLog) + 1
         /\ SubSeq(syncLog', 1, Len(syncLog)) = syncLog
         /\ syncLog'[Len(syncLog')].operation_type = "tenant-sync"
         /\ syncLog'[Len(syncLog')].batch_size = 1
         /\ syncLog'[Len(syncLog')].success = (answered'.resp.status = 200)]_vars

\* the step takes request r out of the stage it is at
Handles(r) == CopiesIn(r, inflight') < CopiesIn(r, inflight)

\* C6: a tenant-sync whose remote read fails because the remote store is
\* unreachable is answered 503, and the local store is unchanged.
C6_RemoteDownIs503 ==
    answered.req.error = RemoteError =>
        /\ answered.resp.status = 503
        /\ local = answered.localBefore

\* the remote query of the request answered in this step was rejected
Rejected == Answering /\ answered'.req.error = RemoteError

\* C7: a tenant-sync whose remote read finds the tenant id absent from the
\* remote store is answered 404 with an explanatory message, without a query to
\* the local store, and the local tenant table is as it was.
C7_AbsentIs404 ==
    [][\A r \in BagToSet(inflight) :
         (/\ r.pc = "remoteQuery"
          /\ RowsOf(remote, r.tenant_id) = {}
          /\ Handles(r)
          /\ ~Rejected) =>
             /\ inflight' = inflight (-) SetToBag({r})
             /\ answered'.req.tenant_id = r.tenant_id
             /\ answered'.resp.status = 404
             /\ answered'.resp.success = FALSE
             /\ answered'.resp.error =
                    <<"Tenant", r.tenant_id, "not found in remote database">>
             /\ "local" \notin answered'.req.touched
             /\ local' = local]_vars

C7_Witness ==
    /\ answered.resp.status = 404
    /\ RowsOf(remote, Tenant(answered)) = {}
    /\ local # {}

\* C8: a request without tenant_id is answered 400 and queries neither store:
\* it is never among the requests waiting on a store, and its answer finds
\* no store touched and the local table unchanged.
C8_MissingIdIs400 ==
    /\ \A r \in BagToSet(inflight) : r.tenant_id # Undefined
    /\ (answered.resp # NoResp /\ Tenant(answered) = Undefined) =>
         /\ answered.resp.status = 400
         /\ answered.req.touched = {}
         /\ local = answered.localBefore

C8_Witness ==
    /\ answered.resp.status = 400
    /\ Tenant(answered) = Undefined
    /\ inflight # EmptyBag

----------------------------------------------------------------------------
(* Upload cycle: properties *)

\* C9: retry_count of a reading never decreases; an attempt on a reading with
\* is_synchronized=false and retry_count=r leaves, when it fails,
\* is_synchronized=false, retry_count=r+1, status failed, and when it succeeds,
\* is_synchronized=true, retry_count=r, status delivered.
C9_RetryAccounting ==
    [][/\ \A i \in DOMAIN readings :
            readings'[i].retry_count >= readings[i].retry_count
       /\ Len(outcomes') = Len(outcomes) + 1 =>
            LET i == batch[Len(outcomes')].meter_reading_id
                rd == readings[i]
            IN  ~rd.is_synchronized =>
                  IF outcomes'[Len(outcomes')]
                  THEN readings'[i] =
                         [rd EXCEPT !.is_synchronized = TRUE,
                                    !.sync_status = "delivered"]
                  ELSE readings'[i] =
                         [rd EXCEPT !.retry_count = rd.retry_count + 1,
                                    !.sync_status = "failed"]]_vars

C9_Witness ==
    /\ \E i \in DOMAIN readings :
         /\ ~readings[i].is_synchronized
         /\ readings[i].retry_count = 2
         /\ readings[i].sync_status = "failed"
    /\ \E i \in DOMAIN readings :
         /\ readings[i].is_synchronized
         /\ readings[i].retry_count = 1

\* the readings of the batch attempted so far stand as their attempts left them
AttemptsStand ==
    \A k \in 1..Len(outcomes) :
        LET rd == readings[batch[k].meter_reading_id]
        IN  IF outcomes[k]
            THEN rd.is_synchronized /\ rd.retry_count = batch[k].retry_count
            ELSE ~rd.is_synchronized /\ rd.retry_count = batch[k].retry_count + 1

\* C10: the sync log changes only when a running cycle has attempted its whole
\* batch, and then by exactly one appended entry of type "upload" with
\* batch_size the number of readings attempted and success iff every one was
\* delivered; a cycle never ends without that entry; the delivered readings of
\* the batch are then synchronized and the failed ones are not, with
\* retry_count one higher than when selected.
C10_OneEntryPerCycle ==
    [][/\ syncLog' # syncLog =>
            /\ cycle = "running" /\ cycle' = "idle"
            /\ Len(outcomes) = Len(batch)
            /\ syncLog' = Append(syncLog, syncLog'[Len(syncLog')])
            /\ syncLog'[Len(syncLog')].operation_type = "upload"
            /\ syncLog'[Len(syncLog')].batch_size = Len(outcomes)
            /\ syncLog'[Len(syncLog')].success = (\A k \in 1..Len(outcomes) : outcomes[k])
            /\ AttemptsStand
            /\ readings' = readings
       /\ (cycle = "running" /\ cycle' = "idle") => Len(syncLog') = Len(syncLog) + 1
       /\ (cycle = "running" /\ Len(outcomes) < Len(batch)) => cycle' = "running"]_vars

C10_Witness ==
    /\ cycle = "idle"
    /\ syncLog # << >>
    /\ syncLog[Len(syncLog)].batch_size = 2
    /\ syncLog[Len(syncLog)].success = FALSE
    /\ \E i, j \in DOMAIN readings :
         /\ readings[i].is_synchronized /\ readings[i].sync_status = "delivered"
         /\ ~readings[j].is_synchronized /\ readings[j].sync_status = "failed"
         /\ readings[j].retry_count = 1

\* C11: every reading with is_synchronized=true has a successful delivery
\* recorded in the sync log (an upload entry with success=true), also while a
\* cycle is running and after a partially failed batch.
C11_SynchronizedIsLogged ==
    \A i \in DOMAIN readings :
        readings[i].is_synchronized =>
            \E k \in DOMAIN syncLog :
                /\ syncLog[k].operation_type = "upload"
                /\ syncLog[k].success

\* a trigger request is taken up by the service in this step
TriggerHandled == CopiesIn("sent", triggers') < CopiesIn("sent", triggers)

\* C12: at most one upload cycle is in flight: a manual trigger that arrives
\* while a cycle is running is rejected and starts nothing, the batch of a
\* running cycle is never replaced, and no delivery is made of a reading that
\* is already synchronized; on the page, at most one trigger request is in
\* flight, and isSyncing is set while it is.
C12_SingleFlight ==
    [][/\ BagCardinality(triggers') <= 1
       /\ triggers' # EmptyBag => isSyncing'
       /\ (TriggerHandled /\ cycle = "running") =>
            /\ UNCHANGED uploadVars
            /\ CopiesIn("rejected", triggers') = CopiesIn("rejected", triggers) + 1
       /\ cycle = "running" =>
            \/ cycle' = "running" /\ batch' = batch
            \/ cycle' = "idle" /\ Len(outcomes) = Len(batch)
       /\ (Len(outcomes') = Len(outcomes) + 1 /\ outcomes'[Len(outcomes')]) =>
            ~readings[batch[Len(outcomes')].meter_reading_id].is_synchronized]_vars

C12_Witness ==
    /\ CopiesIn("rejected", triggers) = 1
    /\ cycle = "running"
    /\ Len(outcomes) > 0

----------------------------------------------------------------------------
(* Status endpoints: properties *)

\* the status request was answered with the status document
StatusOK == statusCall.pc = "answered" /\ statusCall.resp.status = 200

\* C13: the queue_size of a status response (of either endpoint) is the number
\* of meter_reading rows with is_synchronized=false that the table held when
\* the count query ran, whatever the number of synchronized rows beside them
\* and whatever happened to the table afterwards.
C13_QueueSizeIsCount ==
    StatusOK =>
        statusCall.resp.queue_size = Cardinality(statusCall.counted.queued)

C13_Witness ==
    /\ StatusOK
    /\ statusCall.counted.queued # {}
    /\ statusCall.counted.delivered # {}
    /\ statusCall.counted # Flags(readings)

\* C16: every 200 answer of GET /api/local/sync-status was preceded, in the
\* same call, by a probe of the remote store; is_connected is true iff that
\* probe succeeded; and a call whose probe failed is answered 200 with
\* is_connected=false.
C16_ConnectedIsProbe ==
    (statusCall.pc = "answered" /\ statusCall.endpoint = "sync-status") =>
        /\ statusCall.resp.status = 200 =>
             /\ statusCall.probe # "none"
             /\ statusCall.resp.is_connected = (statusCall.probe = "ok")
        /\ statusCall.probe = "failed" =>
             /\ statusCall.resp.status = 200
             /\ statusCall.resp.is_connected = FALSE

C16_Witness ==
    /\ StatusOK
    /\ statusCall.endpoint = "sync-status"
    /\ statusCall.probe = "failed"
    /\ statusCall.resp.queue_size > 0

\* sync_log as the log query of the answered status request found it
LogAtQuery == SubSeq(syncLog, 1, statusCall.logged)

SyncStatusOK == StatusOK /\ statusCall.endpoint = "sync-status"

\* C14: sync_errors has at most 10 entries; each is a log entry with
\* success=false, with that entry's batch size and completion time; they are in
\* order of completion time, most recent first; and error_message is the
\* entry's message, or "Unknown error" when the entry has none.
C14_RecentErrors ==
    SyncStatusOK =>
        LET errs == statusCall.resp.sync_errors
        IN  /\ Len(errs) <= 10
            /\ \A j \in 1..Len(errs) :
                 /\ errs[j].sync_log_id \in 1..Len(LogAtQuery)
                 /\ LET entry == LogAtQuery[errs[j].sync_log_id]
                    IN  /\ ~entry.success
                        /\ errs[j].batch_size = entry.batch_size
                        /\ errs[j].synced_at = errs[j].sync_log_id
                        /\ errs[j].error_message =
                             IF entry.error_message = NoMessage
                             THEN "Unknown error" ELSE entry.error_message
            /\ \A j, k \in 1..Len(errs) :
                 j < k => errs[j].synced_at > errs[k].synced_at

C14_Witness ==
    /\ SyncStatusOK
    /\ Len(statusCall.resp.sync_errors) = 10
    /\ Len(SelectSeq(syncLog, LAMBDA e : ~e.success)) > 10
    /\ statusCall.resp.sync_errors[1].error_message = "Unknown error"
    /\ statusCall.resp.sync_errors[2].error_message = "some readings failed"

\* the completion times of the successful entries of a log
Successes(log) == {k \in 1..Len(log) : log[k].success}

\* C15: last_sync_at is the completion time of the most recent entry of the
\* log with success=true, and null only if the log has no such entry, for a
\* log of any length and any order of successes and failures.
C15_LastSuccessfulSync ==
    SyncStatusOK =>
        IF Successes(LogAtQuery) = {}
        THEN statusCall.resp.last_sync_at = NoTime
        ELSE /\ statusCall.resp.last_sync_at \in Successes(LogAtQuery)
             /\ \A k \in Successes(LogAtQuery) : k <= statusCall.resp.last_sync_at

----------------------------------------------------------------------------
(* Connection monitor: properties *)

TargetSet == {Targets[k] : k \in DOMAIN Targets}

\* C17: the state of every endpoint starts as checking; whenever it changes it
\* becomes connected or disconnected, never error; and once it has left
\* checking it never is checking again.
C17_CheckingThenTwoStates ==
    /\ \A t \in TargetSet : status[t] = CHECKING
    /\ [][\A t \in TargetSet :
             /\ status'[t] # status[t] => status'[t] \in {CONNECTED, DISCONNECTED}
             /\ status'[t] # ERROR
             /\ status[t] # CHECKING => status'[t] # CHECKING]_vars

C17_Witness ==
    /\ status.syncDb = CONNECTED
    /\ status.remoteDb = DISCONNECTED
    /\ status.remoteApi = DISCONNECTED
    /\ probed.how = "network error"

\* C18: the probe that resolved last left its endpoint connected iff its fetch
\* ended with a response of status 2xx, and disconnected when it ended with
\* another response, with a network error or with the timeout; and the timeout
\* of a probe in progress can always fire, whatever the endpoint does.
C18_ProbeOutcome ==
    /\ probed # NoProbe =>
         /\ status[probed.target] \in {CONNECTED, DISCONNECTED}
         /\ status[probed.target] = CONNECTED <=>
               (probed.how = "response" /\ probed.code >= 200 /\ probed.code <= 299)
    /\ \A k \in DOMAIN Targets :
         CopiesIn(k, passes) > 0 => ENABLED TimeoutFires(k)

C18_Witness ==
    /\ probed.how = "timeout"
    /\ reachable.api = "silent"
    /\ status[probed.target] = DISCONNECTED
    /\ \E t \in TargetSet : status[t] = CONNECTED

\* C19: allConnected is true iff the three endpoint states are connected, and
\* remoteSystemConnected is true iff the remote-store and remote-API states
\* are, whatever the local-store state: local disconnected with both remote
\* states connected gives remoteSystemConnected=true, allConnected=false.
C19_Aggregates ==
    /\ IsAllConnected(status) <=> \A t \in TargetSet : status[t] = CONNECTED
    /\ IsRemoteSystemConnected(status) <=>
         \A t \in {"remoteDb", "remoteApi"} : status[t] = CONNECTED
    /\ (/\ status.syncDb = DISCONNECTED
        /\ status.remoteDb = CONNECTED
        /\ status.remoteApi = CONNECTED) =>
           IsRemoteSystemConnected(status) /\ ~IsAllConnected(status)

C19_Witness ==
    /\ status.syncDb = DISCONNECTED
    /\ status.remoteDb = CONNECTED
    /\ status.remoteApi = CONNECTED

\* the probe of the remote API, the last of a pass, resolves in this step
PassCompletes == CopiesIn(Len(Targets), passes') < CopiesIn(Len(Targets), passes)

\* C20: when a pass completes, the remote-API state tells whether the API of
\* the remote Client System is reachable: it is disconnected when that API is
\* unreachable, and an outage of the local store alone, answered in time,
\* leaves it connected.
C20_RemoteApiIsClientApi ==
    [][PassCompletes =>
         /\ ~reachable.clientApi => status'.remoteApi = DISCONNECTED
         /\ (/\ reachable = [AllUp EXCEPT !.syncDb = FALSE]
             /\ probed'.how = "response") => status'.remoteApi = CONNECTED]_vars

\* probe k of a pass returns in this step
ProbeReturns(k) == CopiesIn(k, passes') < CopiesIn(k, passes)

\* C21: the probes of a pass are independent: when a probe returns, failed or
\* not, the pass goes on with the probe of the next endpoint; every probe in
\* progress eventually returns and assigns connected or disconnected to its
\* endpoint; and once a pass has started, every endpoint eventually has one of
\* these two states.
C21_ProbesIndependent ==
    /\ [][\A k \in 1..(Len(Targets) - 1) :
             ProbeReturns(k) =>
                 CopiesIn(k + 1, passes') = CopiesIn(k + 1, passes) + 1]_vars
    /\ \A k \in DOMAIN Targets :
         (CopiesIn(k, passes) > 0) ~>
             (/\ probed.target = Targets[k]
              /\ status[Targets[k]] \in {CONNECTED, DISCONNECTED})
    /\ (passes # EmptyBag) ~>
         (\A t \in TargetSet : status[t] \in {CONNECTED, DISCONNECTED})

C21_Witness ==
    /\ passes = EmptyBag
    /\ status.syncDb = DISCONNECTED
    /\ status.remoteDb = CONNECTED
    /\ probed.target = "remoteApi"
    /\ probed.how = "timeout"

\* a call of checkAllConnections starts a pass in this step
PassStarts == CopiesIn(1, passes') > CopiesIn(1, passes)

\* C22: nothing is probed before the monitor starts; the step that starts it
\* also starts one pass and sets the interval; every other pass is started
\* while the interval is set, one pass per call; and once the monitor was
\* stopped the interval stays cleared and no pass is started.
C22_PassesWhileMounted ==
    /\ interval = "none"
    /\ [][/\ interval = "none" => (passes = EmptyBag /\ probed = NoProbe)
          /\ (interval = "none" /\ interval' # "none") =>
                /\ interval' = "set"
                /\ passes' = SetToBag({1})
          /\ PassStarts =>
                /\ CopiesIn(1, passes') = CopiesIn(1, passes) + 1
                /\ interval' = "set"
          /\ interval = "cleared" =>
                (interval' = "cleared" /\ ~PassStarts)]_vars

C22_Witness ==
    /\ interval = "cleared"
    /\ passes = EmptyBag
    /\ \A t \in TargetSet : status[t] = CONNECTED

\* C23: once the monitor was stopped no probe is in progress: no abort timer
\* is pending and no request is waiting for its response.
C23_StopCancelsProbes ==
    interval = "cleared" => passes = EmptyBag

----------------------------------------------------------------------------
(* The server process: properties *)

\* C24: shutdown is idempotent: no close callback and no closePools call
\* raises an error, and no pool has its end() called more than once, however
\* many shutdown signals the process receives.
C24_ShutdownIdempotent ==
    /\ process.raised = NoError
    /\ process.ends.sync <= 1
    /\ process.ends.remote <= 1

\* C25: a health check gives its caller a result and throws nothing; the
\* result is unhealthy, with the detail of the failure, when the pool was
\* ended or the store did not answer; and the response is 200 with status ok
\* iff the store answered the check, and 503 with status error and that
\* detail otherwise.
C25_HealthNeverThrows ==
    health # NoHealth =>
        LET answers == health.pool = "open" /\ health.up
        IN  /\ health.result.kind = "returned"
            /\ health.result.status = IF answers THEN "healthy" ELSE "unhealthy"
            /\ ~answers =>
                 /\ health.result.error # NoError
                 /\ health.pool = "open" =>
                      health.result.error \in {LocalError, RemoteError}
            /\ health.resp.status = IF answers THEN 200 ELSE 503
            /\ health.resp.body.database = health.db
            /\ health.resp.status = 200 => health.resp.body.status = "ok"
            /\ health.resp.status = 503 =>
                 /\ health.resp.body.status = "error"
                 /\ health.resp.body.error = health.result.error

C25_Witness ==
    /\ health # NoHealth
    /\ health.db = "remote"
    /\ health.pool = "open"
    /\ ~health.up
    /\ health.resp.status = 503
    /\ health.resp.body.error = RemoteError
    /\ ~process.tested.remote

\* C26: a process whose startup did not reach the remote store starts all
\* the same, and a process whose startup did not reach the local store does
\* not start: it exits with an error code.
C26_StartupAsymmetry ==
    process.pc # "starting" =>
        /\ process.tested.sync => process.code # 1
        /\ ~process.tested.sync => (process.pc = "exited" /\ process.code = 1)

----------------------------------------------------------------------------
(* Responses: properties *)

\* C27: the body of a 500 response does not carry the message of the error
\* that the catch block of the handler caught: the detail of a failed store
\* query stays on the server.
C27_GenericMessage ==
    answered.resp.status = 500 =>
        /\ answered.resp.error # answered.req.error
        /\ answered.resp.error \notin {RemoteError, LocalError}

----------------------------------------------------------------------------
(* The Manual Sync card: properties *)

\* handleManualSync is fired in this step
ManualSyncFired == CopiesIn("sent", triggers') > CopiesIn("sent", triggers)

\* C28: handleManualSync is fired only when the status fetched last reports
\* is_connected=true and no trigger request of the page is in flight; and
\* while no status was fetched yet, or the status fetched last reports
\* is_connected=false, the button is disabled and cannot be clicked.
C28_SyncGatedOnConnection ==
    /\ [](\/ syncStatus = NoStatus
          \/ syncStatus = <<[is_connected |-> FALSE]>>
          \/ triggers # EmptyBag
             => ButtonDisabled(isSyncing, syncStatus) /\ ~ENABLED ClickManualSync)
    /\ [][ManualSyncFired =>
             /\ syncStatus = <<[is_connected |-> TRUE]>>
             /\ triggers = EmptyBag
             /\ ~isSyncing]_vars

C28_Witness ==
    /\ syncStatus = <<[is_connected |-> FALSE]>>
    /\ CopiesIn("sent", triggers) = 1
    /\ isSyncing

----------------------------------------------------------------------------
(* CompanyInfoCard: properties *)

\* C29: while the card shows its indicators, the chip says All Systems
\* Connected only if each of the three indicators shows connected.
C29_ChipAgreesWithIndicators ==
    (display.interval = "set" /\ IsAllConnected(status)) =>
        \A t \in TargetSet : display.status[t] = CONNECTED

----------------------------------------------------------------------------
(* The tenant credential: properties *)

\* the tenant record a 200 response carries
TenantOf(resp) ==
    IF "tenant_data" \in DOMAIN resp THEN resp.tenant_data ELSE resp.body

\* the api_key values a tenant record takes
ApiKeys == {Row(t, v).api_key : t \in TenantIds, v \in Versions}

\* C30: the local row written by a successful tenant-sync holds the api_key
\* of the remote record; and the tenant record of a 200 response, of
\* tenant-sync or of GET /api/local/tenant, has no api_key property and no
\* property whose value is an api_key, whatever syncs and reads came before.
C30_ApiKeyStaysLocal ==
    answered.resp.status = 200 =>
        /\ "api_key" \notin DOMAIN answered.resp
        /\ "api_key" \notin DOMAIN TenantOf(answered.resp)
        /\ \A f \in DOMAIN TenantOf(answered.resp) \ {"tenant_id", "active"} :
              TenantOf(answered.resp)[f] \notin ApiKeys
        /\ \E row \in local :
              /\ row.tenant_id = TenantOf(answered.resp).tenant_id
              /\ row.api_key \in ApiKeys
              /\ SelectColumns(row) = TenantOf(answered.resp)
              /\ answered.req.pc = "upsert" =>
                    row.api_key = answered.req.remoteTenant.api_key

C30_Witness ==
    /\ answered.req.pc = "tenant"
    /\ answered.resp.status = 200
    /\ \E row \in local : row.api_key = Col("api_key", 2)
    /\ answered.resp.body.name = Col("name", 2)

====
